---- MODULE Spec2Model ----
(***************************************************************************)
(* LSB steganography tool: file_handler.py (prepare / restore / capacity   *)
(* planner), stego_enhanced.py (embed_data / extract_data) and the two     *)
(* plain tools image_binary_insert.py / image_binary_extract.py.           *)
(*                                                                         *)
(* Bytes are naturals 0..255, byte strings and bit strings are sequences,  *)
(* an image is a record [width, height, pixels] whose pixels are a         *)
(* row-major sequence of <<R, G, B>> triples (PIL getdata / putdata).      *)
(***************************************************************************)
EXTENDS Integers, Sequences, FiniteSets, TLC

(***************************************************************************)
(* Bounds of the model                                                     *)
(***************************************************************************)
MaxFileLen == 2      \* small input files: every byte string up to this length
MaxH == 11            \* carrier heights 1..MaxH
CarrierW == 8        \* width of the non-trivial carriers
MaxCrop == 2         \* rows that may be missing from an image given to extract
MaxPlanN == 50       \* payload sizes given to the capacity planner alone
GateSpan == 3        \* file sizes examined around the compression threshold

(***************************************************************************)
(* Program constants                                                       *)
(***************************************************************************)
CompressThreshold == 1024   \* prepare_file: only compress files > 1KB
MetadataOverhead == 1024    \* calculate_required_capacity: 1KB for metadata
HeaderBytes == 4            \* metadata_size.to_bytes(4, byteorder='big')

ByteVals == {0, 77, 255}

Min(a, b) == IF a < b THEN a ELSE b

(***************************************************************************)
(* Python slicing s[a:b] on a sequence, 0-based, clamped to the length.    *)
(***************************************************************************)
Slice(s, a, b) ==
    LET lo == Min(a, Len(s))
        hi == Min(b, Len(s))
    IN  IF hi <= lo THEN <<>> ELSE [k \in 1..(hi - lo) |-> s[lo + k]]

(***************************************************************************)
(* Bit and byte conversions                                                *)
(***************************************************************************)
\* as Format08b, least significant digit first
Format08b_LsbFirst(byte) == [k \in 1..8 |-> (byte \div (2 ^ (k - 1))) % 2]

\* format(byte, '08b'): eight binary digits, most significant first
Format08b(byte) == [k \in 1..8 |-> (byte \div (2 ^ (8 - k))) % 2]

\* ''.join(format(byte, '08b') for byte in data)
BinaryString(data) ==
    [k \in 1..(8 * Len(data)) |-> Format08b(data[((k - 1) \div 8) + 1])[((k - 1) % 8) + 1]]

\* int(bits, 2): the first digit is the most significant
RECURSIVE IntBase2(_)
IntBase2(bits) ==
    IF Len(bits) = 0 THEN 0
    ELSE 2 * IntBase2(SubSeq(bits, 1, Len(bits) - 1)) + bits[Len(bits)]

\* n.to_bytes(4, byteorder='big')
ToBytes4(n) == [k \in 1..HeaderBytes |-> (n \div (256 ^ (HeaderBytes - k))) % 256]

\* for i in range(0, len(bits), 8): byte = bits[i:i+8]; if len(byte) == 8: append(int(byte, 2))
BitsToBytes(bits) ==
    [k \in 1..(Len(bits) \div 8) |-> IntBase2(Slice(bits, 8 * (k - 1), 8 * k))]

\* pixel[j] | 1
OrOne(v) == (v \div 2) * 2 + 1

\* as AndNotOne, with the mask 1 instead of ~1
AndNotOne_MaskOne(v) == v % 2

\* pixel[j] & ~1
AndNotOne(v) == (v \div 2) * 2

\* value & 1
AndOne(v) == v % 2

(***************************************************************************)
(* gzip, modelled as a lossless codec with a two-byte magic number, a      *)
(* block type and a 16-bit length that is verified on decompression:       *)
(*   type 1 (run)    : 31 139 1 hi lo value      all bytes of the input    *)
(*                                               are equal                 *)
(*   type 0 (stored) : 31 139 0 hi lo data...    otherwise                 *)
(***************************************************************************)
IsRun(data) == Len(data) > 0 /\ \A k \in 1..Len(data) : data[k] = data[1]

Gzip(data) ==
    IF IsRun(data)
    THEN <<31, 139, 1, Len(data) \div 256, Len(data) % 256, data[1]>>
    ELSE <<31, 139, 0, Len(data) \div 256, Len(data) % 256>> \o data

GunzipOk(z) ==
    /\ Len(z) >= 5
    /\ z[1] = 31 /\ z[2] = 139
    /\ \/ z[3] = 1 /\ Len(z) = 6 /\ z[4] * 256 + z[5] > 0
       \/ z[3] = 0 /\ Len(z) = 5 + z[4] * 256 + z[5]

Gunzip(z) ==
    IF z[3] = 1 THEN [k \in 1..(z[4] * 256 + z[5]) |-> z[6]]
    ELSE Slice(z, 5, Len(z))

(***************************************************************************)
(* tar, modelled as the members in order, each as a length byte followed   *)
(* by its content, closed by the end-of-archive byte 255.                  *)
(***************************************************************************)
RECURSIVE Tar(_)
Tar(tree) ==
    IF Len(tree) = 0 THEN <<255>>
    ELSE <<Len(Head(tree))>> \o Head(tree) \o Tar(Tail(tree))

RECURSIVE UntarOk(_)
UntarOk(t) ==
    IF Len(t) = 0 THEN FALSE
    ELSE IF t[1] = 255 THEN Len(t) = 1
    ELSE Len(t) >= 1 + t[1] /\ UntarOk(Slice(t, 1 + t[1], Len(t)))

RECURSIVE Untar(_)
Untar(t) ==
    IF t[1] = 255 THEN <<>>
    ELSE <<Slice(t, 1, 1 + t[1])>> \o Untar(Slice(t, 1 + t[1], Len(t)))

(***************************************************************************)
(* Metadata and its JSON form.  The model keeps the keys the frame logic   *)
(* reads or that exist only on some paths: size, type, compressed,         *)
(* original_size, compression_ratio, file_count (the string-valued         *)
(* original_name, original_path and mime are not modelled).  The float     *)
(* compression_ratio = compressed_size / original_size is kept as the pair *)
(* <<compressed_size, original_size>>.  json.dumps is modelled as a text   *)
(* of ASCII bytes with one-letter keys in dict insertion order, integers   *)
(* in decimal:                                                             *)
(*    { s <size> t <type> c <T|F> [ o <orig> r <num> / <den> ] [ n <cnt> ] }*)
(***************************************************************************)
TypeCode(t) ==
    CASE t = "text" -> 120
      [] t = "document" -> 112
      [] t = "image" -> 105
      [] t = "archive" -> 97
      [] t = "media" -> 109
      [] t = "binary" -> 98
      [] t = "directory" -> 100

TypeNames == {"text", "document", "image", "archive", "media", "binary", "directory"}

TypeOfCode(c) == CHOOSE t \in TypeNames : TypeCode(t) = c

RECURSIVE DecDigits(_)
DecDigits(n) ==
    IF n < 10 THEN <<48 + n>> ELSE DecDigits(n \div 10) \o <<48 + (n % 10)>>

IsDigit(c) == c >= 48 /\ c <= 57

RECURSIVE DigitsEnd(_, _)
DigitsEnd(b, pos) ==
    IF pos <= Len(b) /\ IsDigit(b[pos]) THEN DigitsEnd(b, pos + 1) ELSE pos

RECURSIVE DecValue(_)
DecValue(ds) ==
    IF Len(ds) = 0 THEN 0
    ELSE 10 * DecValue(SubSeq(ds, 1, Len(ds) - 1)) + (ds[Len(ds)] - 48)

\* json.dumps(metadata).encode('utf-8')
JsonDumps(m) ==
    <<123>> \o <<115>> \o DecDigits(m.size)
            \o <<116, TypeCode(m.type)>>
            \o <<99, IF m.compressed THEN 84 ELSE 70>>
            \o (IF "original_size" \in DOMAIN m
                THEN <<111>> \o DecDigits(m.original_size)
                     \o <<114>> \o DecDigits(m.compression_ratio[1])
                     \o <<47>> \o DecDigits(m.compression_ratio[2])
                ELSE <<>>)
            \o (IF "file_count" \in DOMAIN m
                THEN <<110>> \o DecDigits(m.file_count)
                ELSE <<>>)
            \o <<125>>

NoMetadata == [size |-> 0, type |-> "none", compressed |-> FALSE]

\* json.loads(metadata_bytes.decode('utf-8')) followed by the reads of
\* metadata['type'], metadata['compressed'], metadata['size']: ok is FALSE
\* where Python raises (decode error, JSONDecodeError, KeyError)
JsonLoads(b) ==
    LET n == Len(b)
        At(p) == IF p >= 1 /\ p <= n THEN b[p] ELSE -1
        Num(p, e) == DecValue(Slice(b, p - 1, e - 1))
        e1 == DigitsEnd(b, 3)
        p2 == e1 + 4
        hasO == At(p2) = 111
        e2 == DigitsEnd(b, p2 + 1)
        e3 == DigitsEnd(b, e2 + 1)
        e4 == DigitsEnd(b, e3 + 1)
        p3 == IF hasO THEN e4 ELSE p2
        hasN == At(p3) = 110
        e5 == DigitsEnd(b, p3 + 1)
        p4 == IF hasN THEN e5 ELSE p3
        ok == /\ At(1) = 123 /\ At(2) = 115 /\ e1 > 3
              /\ At(e1) = 116 /\ \E t \in TypeNames : TypeCode(t) = At(e1 + 1)
              /\ At(e1 + 2) = 99 /\ At(e1 + 3) \in {84, 70}
              /\ hasO => (e2 > p2 + 1 /\ At(e2) = 114 /\ e3 > e2 + 1
                          /\ At(e3) = 47 /\ e4 > e3 + 1)
              /\ hasN => e5 > p3 + 1
              /\ p4 = n /\ At(n) = 125
        base == [size |-> Num(3, e1), type |-> TypeOfCode(At(e1 + 1)),
                 compressed |-> (At(e1 + 3) = 84)]
        withO == IF hasO
                 THEN base @@ [original_size |-> Num(p2 + 1, e2),
                               compression_ratio |-> <<Num(e2 + 1, e3), Num(e3 + 1, e4)>>]
                 ELSE base
        withN == IF hasN THEN withO @@ [file_count |-> Num(p3 + 1, e5)] ELSE withO
    IN  [ok |-> ok, value |-> IF ok THEN withN ELSE NoMetadata]

(***************************************************************************)
(* file_handler.py: FileHandler                                            *)
(***************************************************************************)
\* FileHandler.SUPPORTED_FORMATS
SUPPORTED_FORMATS ==
    [text |-> {".txt", ".md", ".log", ".csv", ".json", ".xml", ".html", ".css",
               ".js", ".py", ".sh", ".c", ".cpp", ".java"},
     document |-> {".pdf", ".doc", ".docx", ".odt", ".rtf", ".tex"},
     image |-> {".jpg", ".jpeg", ".png", ".gif", ".bmp", ".tiff", ".svg", ".webp"},
     archive |-> {".zip", ".tar", ".gz", ".bz2", ".7z", ".rar"},
     media |-> {".mp3", ".mp4", ".avi", ".mkv", ".wav", ".flac"},
     binary |-> {".exe", ".bin", ".dat", ".db", ".sqlite"}]

\* identify_file_type(file_path)[0]; ext is Path(file_path).suffix.lower()
identify_file_type(ext) ==
    IF \E cat \in DOMAIN SUPPORTED_FORMATS : ext \in SUPPORTED_FORMATS[cat]
    THEN CHOOSE cat \in DOMAIN SUPPORTED_FORMATS : ext \in SUPPORTED_FORMATS[cat]
    ELSE "binary"

\* file_path.lower().endswith(('.zip', '.gz', ...))
already_compressed(ext) ==
    ext \in {".zip", ".gz", ".bz2", ".7z", ".rar", ".jpg", ".jpeg", ".mp3", ".mp4"}

\* as TriesCompression, with >= for >
TriesCompression_AtThreshold(ext, size, compress) ==
    compress /\ ~already_compressed(ext) /\ size >= CompressThreshold

\* the guard of the compression attempt in prepare_file
TriesCompression(ext, size, compress) ==
    compress /\ ~already_compressed(ext) /\ size > CompressThreshold

\* compressed_size < file_info['size'] * 0.8.  The double nearest to 0.8
\* exceeds 0.8 by 2^-54 relative, less than half an ulp of the product, so
\* for integer sizes the float comparison agrees with 5*c < 4*s.
SignificantlySmaller(compressed_size, size) == 5 * compressed_size < 4 * size

\* as prepare_file, without file_info['size'] = compressed_size
prepare_file_StaleSize(ext, size, compress, compressed_size) ==
    LET file_info == [size |-> size, type |-> identify_file_type(ext), compressed |-> FALSE]
    IN  IF TriesCompression(ext, size, compress)
           /\ SignificantlySmaller(compressed_size, size)
        THEN [path |-> "temp_gz",
              info |-> [size |-> size, type |-> file_info.type,
                        compressed |-> TRUE, original_size |-> size,
                        compression_ratio |-> <<compressed_size, size>>]]
        ELSE [path |-> "input", info |-> file_info]

\* prepare_file: the (path, file_info) it returns, given the file's
\* extension and size and the size gzip produced for it
prepare_file(ext, size, compress, compressed_size) ==
    LET file_info == [size |-> size, type |-> identify_file_type(ext), compressed |-> FALSE]
    IN  IF TriesCompression(ext, size, compress)
           /\ SignificantlySmaller(compressed_size, size)
        THEN [path |-> "temp_gz",
              info |-> [size |-> compressed_size, type |-> file_info.type,
                        compressed |-> TRUE, original_size |-> size,
                        compression_ratio |-> <<compressed_size, size>>]]
        ELSE [path |-> "input", info |-> file_info]

\* prepare_directory: the archive written to the temporary file
DirectoryArchive(tree, compress) == IF compress THEN Gzip(Tar(tree)) ELSE Tar(tree)

\* prepare_directory: dir_info
prepare_directory(tree, compress) ==
    [path |-> "temp_tar",
     info |-> [size |-> Len(DirectoryArchive(tree, compress)), type |-> "directory",
               compressed |-> compress, file_count |-> Len(tree)]]

\* as restore_file, never taking the decompression branch
restore_file_NoDecompress(encrypted, metadata) == [ok |-> TRUE, data |-> encrypted]

\* restore_file: ok is FALSE where gzip raises; data is what output_path holds
restore_file(encrypted, metadata) ==
    IF metadata.compressed
    THEN IF GunzipOk(encrypted) THEN [ok |-> TRUE, data |-> Gunzip(encrypted)]
         ELSE [ok |-> FALSE, data |-> <<>>]
    ELSE [ok |-> TRUE, data |-> encrypted]

\* restore_directory: ok is FALSE where tarfile raises; tree is what was extracted
restore_directory(tar_bytes, metadata) ==
    LET opened == IF metadata.compressed
                  THEN IF GunzipOk(tar_bytes) THEN [ok |-> TRUE, data |-> Gunzip(tar_bytes)]
                       ELSE [ok |-> FALSE, data |-> <<>>]
                  ELSE [ok |-> TRUE, data |-> tar_bytes]
    IN  IF opened.ok /\ UntarOk(opened.data)
        THEN [ok |-> TRUE, tree |-> Untar(opened.data)]
        ELSE [ok |-> FALSE, tree |-> <<>>]

(***************************************************************************)
(* file_handler.py: calculate_required_capacity                            *)
(***************************************************************************)
aspect_ratios == << <<1, 1>>, <<4, 3>>, <<16, 9>>, <<3, 2>> >>

total_bytes(file_size) == file_size + HeaderBytes + MetadataOverhead

\* as required_pixels, taking the byte count for the bit count
required_pixels_BytesForBits(file_size) == (total_bytes(file_size) + 2) \div 3

\* as required_pixels, with % for //
required_pixels_Modulo(file_size) == (total_bytes(file_size) * 8 + 2) % 3

\* (total_bits + 2) // 3
required_pixels(file_size) == (total_bytes(file_size) * 8 + 2) \div 3

\* int((num / den) ** 0.5): the largest w with w*w*den <= num, searched in
\* 0..4096 (every width the model computes is far below)
RECURSIVE FloorSqrt(_, _, _, _)
FloorSqrt(num, den, lo, hi) ==
    IF lo >= hi THEN lo
    ELSE LET mid == (lo + hi + 1) \div 2
         IN  IF mid * mid * den <= num
             THEN FloorSqrt(num, den, mid, hi)
             ELSE FloorSqrt(num, den, lo, mid - 1)

\* int(width * ratio_h / ratio_w)
HeightFor(width, ratio_w, ratio_h) == (width * ratio_h) \div ratio_w

\* as EnsureEnoughPixels, without the loop
EnsureEnoughPixels_NoLoop(width, ratio_w, ratio_h, rp) == width

\* while width * height < required_pixels: width += 1; height = ...
RECURSIVE EnsureEnoughPixels(_, _, _, _)
EnsureEnoughPixels(width, ratio_w, ratio_h, rp) ==
    IF width * HeightFor(width, ratio_w, ratio_h) < rp
    THEN EnsureEnoughPixels(width + 1, ratio_w, ratio_h, rp)
    ELSE width

\* one entry of suggestions
Suggestion(ratio, rp) ==
    LET w0 == FloorSqrt(rp * ratio[1], ratio[2], 0, Min(rp * ratio[1], 4096))
        width == EnsureEnoughPixels(w0, ratio[1], ratio[2], rp)
        height == HeightFor(width, ratio[1], ratio[2])
    IN  [width |-> width, height |-> height, pixels |-> width * height,
         aspect_ratio |-> ratio, capacity_bytes |-> (width * height * 3) \div 8]

\* as SortedByPixels, returning the list in the order of the ratios
SortedByPixels_Unsorted(s) == s

\* sorted(suggestions, key=lambda x: x['pixels']): stable
SortedByPixels(s) ==
    LET rank(i) == Cardinality({j \in 1..Len(s) :
                        \/ s[j].pixels < s[i].pixels
                        \/ s[j].pixels = s[i].pixels /\ j < i}) + 1
    IN  [k \in 1..Len(s) |-> s[CHOOSE i \in 1..Len(s) : rank(i) = k]]

calculate_required_capacity(file_size) ==
    LET rp == required_pixels(file_size)
    IN  [file_size |-> file_size,
         required_pixels |-> rp,
         suggestions |-> SortedByPixels([r \in 1..Len(aspect_ratios) |->
                                            Suggestion(aspect_ratios[r], rp)])]

(***************************************************************************)
(* State                                                                   *)
(***************************************************************************)
VARIABLES
    input_file,      \* embed_data's input: a file (ext, data) or a directory (tree)
    compress,        \* embed_data's compress argument
    carrier_image,   \* the carrier file, as Image.open(...).convert('RGB') reads it
    tool,            \* "enhanced" (stego_enhanced.py) or "plain" (image_binary_*.py)
    pc,              \* position in embed_data / extract_data
    prepared_file,   \* path returned by prepare_file / prepare_directory
    metadata,        \* the metadata dict of the embed call
    temp_files,      \* temporary files that exist: path -> content
    open_fds,        \* temporary-file descriptors still open
    file_data,       \* bytes read from prepared_file
    combined_data,   \* the frame
    capacity_info,   \* calculate_required_capacity(total_size)
    binary_string,   \* the frame as a bit string
    pixels,          \* embed_data's pixel list
    pixel_index,     \* i of the embedding loop
    data_index,      \* data_index of the embedding loop
    output_image,    \* the output image file (NoImage while not written)
    embed_result,    \* "none", or the return value of embed_data
    stego_image,     \* the image extract_data opened
    ex_binary_string,\* extract_data's binary_string
    ex_metadata,     \* extract_data's metadata
    file_bytes,      \* extract_data's file_bytes
    restored,        \* what the restore wrote to the output path
    plan_input,      \* planner alone: this call's file_size and the previous one's
    plan_result,     \* planner alone: this call's result and the previous one's
    gate_input,      \* prepare_file alone: ext, size, compress, compressed_size
    gate_result,     \* prepare_file alone: the (path, file_info) returned
    printed_suggestions, \* the dimension suggestions embed_data printed on rejection
    input_exists,    \* whether the path input_file still exists
    plan_loop        \* planner, statement by statement: its local variables

vars == <<input_file, compress, carrier_image, tool, pc, prepared_file, metadata,
          temp_files, open_fds, file_data, combined_data, capacity_info,
          binary_string, pixels, pixel_index, data_index, output_image,
          embed_result, stego_image, ex_binary_string, ex_metadata, file_bytes,
          restored, plan_input, plan_result, gate_input, gate_result,
          printed_suggestions, input_exists, plan_loop>>

embedInputs == <<input_file, compress, carrier_image, tool>>
embedLocals == <<prepared_file, metadata, file_data, combined_data, capacity_info,
                 binary_string, pixels, pixel_index, data_index>>
extractVars == <<stego_image, ex_binary_string, ex_metadata, file_bytes, restored>>
aloneVars == <<plan_input, plan_result, gate_input, gate_result>>
sideVars == <<printed_suggestions, input_exists, plan_loop>>

NoImage == [width |-> 0, height |-> 0, pixels |-> <<>>]
NoFiles == [p \in {} |-> <<>>]
NoPlan == [file_size |-> -1, required_pixels |-> 0, suggestions |-> <<>>]
NoRestored == [kind |-> "none", data |-> <<>>, tree |-> <<>>]
NoGate == [path |-> "none", info |-> NoMetadata]
NoLoop == [required_pixels |-> 0, ratio |-> 0, width |-> 0, height |-> 0,
           suggestions |-> <<>>]

(***************************************************************************)
(* Inputs                                                                  *)
(***************************************************************************)
SeqsUpTo(S, n) == UNION {[1..k -> S] : k \in 0..n}

File(ext, data) == [kind |-> "file", ext |-> ext, data |-> data, tree |-> <<>>]
Directory(tree) == [kind |-> "dir", ext |-> "", data |-> <<>>, tree |-> tree]

\* a file of n equal bytes, and one whose first byte differs
RunData(n) == [k \in 1..n |-> 77]
MixedData(n) == [k \in 1..n |-> IF k = 1 THEN 0 ELSE 77]

InputFiles ==
    {File(".txt", d) : d \in SeqsUpTo(ByteVals, MaxFileLen)}
    \cup {File(e, d) : e \in {".txt", ".zip"},
                       d \in {RunData(CompressThreshold), RunData(CompressThreshold + 1),
                              MixedData(CompressThreshold + 1)}}
    \cup {Directory(t) : t \in {<<>>, << <<77>> >>, << <<0>>, <<77, 255>> >>}}

PixelAt(pattern, k) ==
    IF pattern = "max" THEN <<255, 255, 255>>
    ELSE <<(k * 37) % 256, (k * 11 + 128) % 256, (k * 101 + 1) % 256>>

Image(w, h, pattern) ==
    [width |-> w, height |-> h, pixels |-> [k \in 1..(w * h) |-> PixelAt(pattern, k)]]

Carriers ==
    {Image(1, 1, "mixed")}
    \cup {Image(CarrierW, h, p) : h \in 1..MaxH, p \in {"max", "mixed"}}

(***************************************************************************)
(* stego_enhanced.py: embed_data                                           *)
(***************************************************************************)
Idle ==
    /\ prepared_file = "none" /\ metadata = NoMetadata
    /\ temp_files = NoFiles /\ open_fds = {}
    /\ file_data = <<>> /\ combined_data = <<>> /\ capacity_info = NoPlan
    /\ binary_string = <<>> /\ pixels = <<>> /\ pixel_index = 0 /\ data_index = 0
    /\ output_image = NoImage /\ embed_result = "none"
    /\ stego_image = NoImage /\ ex_binary_string = <<>> /\ ex_metadata = NoMetadata
    /\ file_bytes = <<>> /\ restored = NoRestored
    /\ plan_input = <<-1, -1>> /\ plan_result = <<NoPlan, NoPlan>>
    /\ gate_input = <<"", 0, FALSE, 0>> /\ gate_result = NoGate
    /\ printed_suggestions = <<>> /\ input_exists = TRUE /\ plan_loop = NoLoop

Init ==
    /\ input_file \in InputFiles
    /\ compress \in BOOLEAN
    /\ carrier_image \in Carriers
    /\ tool \in IF input_file.kind = "file" THEN {"enhanced", "plain"} ELSE {"enhanced"}
    /\ pc = "start"
    /\ Idle

\* content of the file at prepared_file
PreparedContent ==
    IF prepared_file = "input" THEN input_file.data ELSE temp_files[prepared_file]

\* as UnlinksPrepared, unlinking whatever path was prepared
UnlinksPrepared_Always(path) == TRUE

\* if prepared_file != input_file:
UnlinksPrepared(path) == path # "input"

\* if prepared_file != input_file: os.unlink(prepared_file), on the temporary files
CleanUp(files) ==
    IF UnlinksPrepared(prepared_file)
    THEN [p \in (DOMAIN files) \ {prepared_file} |-> files[p]]
    ELSE files

\* if prepared_file != input_file: os.unlink(prepared_file), on the input path
InputAfterCleanUp ==
    IF UnlinksPrepared(prepared_file) /\ prepared_file = "input"
    THEN FALSE
    ELSE input_exists

\* for suggestion in capacity_info['suggestions'][:3]: print(...)
PrintedSuggestions(info) == Slice(info.suggestions, 0, 3)

\* lines 27-32 with prepare_file / prepare_directory
Prepare ==
    /\ pc = "start"
    /\ tool = "enhanced"
    /\ LET r == IF input_file.kind = "dir"
                THEN prepare_directory(input_file.tree, compress)
                ELSE prepare_file(input_file.ext, Len(input_file.data), compress,
                                  Len(Gzip(input_file.data)))
       IN  /\ prepared_file' = r.path
           /\ metadata' = r.info
           /\ temp_files' =
                 IF r.path = "temp_tar"
                 THEN temp_files @@ (r.path :> DirectoryArchive(input_file.tree, compress))
                 ELSE IF r.path = "temp_gz"
                 THEN temp_files @@ (r.path :> Gzip(input_file.data))
                 ELSE temp_files
           \* prepare_file returns temp_path without os.close(temp_fd)
           /\ open_fds' = IF r.path = "temp_gz" THEN open_fds \cup {r.path} ELSE open_fds
    /\ pc' = "prepared"
    /\ UNCHANGED <<sideVars, embedInputs, file_data, combined_data, capacity_info, binary_string,
                   pixels, pixel_index, data_index, output_image, embed_result,
                   extractVars, aloneVars>>

\* metadata_size.to_bytes(4, 'big') + metadata_json + file_data
Frame(m, data) == ToBytes4(Len(JsonDumps(m))) \o JsonDumps(m) \o data

\* lines 42-59
BuildFrame ==
    /\ pc = "prepared"
    /\ file_data' = PreparedContent
    /\ combined_data' = Frame(metadata, PreparedContent)
    /\ capacity_info' = calculate_required_capacity(Len(Frame(metadata, PreparedContent)))
    /\ pc' = "framed"
    /\ UNCHANGED <<sideVars, embedInputs, prepared_file, metadata, temp_files, open_fds,
                   binary_string, pixels, pixel_index, data_index, output_image,
                   embed_result, extractVars, aloneVars>>

\* max_capacity = (width * height * 3) // 8
max_capacity(img) == (img.width * img.height * 3) \div 8

\* as TooSmall, comparing bytes with the capacity in bits
TooSmall_BytesAgainstBits(total_size, img) == total_size > img.width * img.height * 3

\* total_size > max_capacity
TooSmall(total_size, img) == total_size > max_capacity(img)

\* lines 61-79: the carrier cannot hold the frame
RejectCapacity ==
    /\ pc = "framed"
    /\ TooSmall(Len(combined_data), carrier_image)
    /\ printed_suggestions' = PrintedSuggestions(capacity_info)
    /\ temp_files' = CleanUp(temp_files)
    /\ input_exists' = InputAfterCleanUp
    /\ embed_result' = FALSE
    /\ pc' = "rejected"
    /\ UNCHANGED <<plan_loop, embedInputs, prepared_file, metadata, open_fds, file_data,
                   combined_data, capacity_info, binary_string, pixels, pixel_index,
                   data_index, output_image, extractVars, aloneVars>>

\* lines 61-91: the carrier can hold the frame
BeginEmbedding ==
    /\ pc = "framed"
    /\ ~TooSmall(Len(combined_data), carrier_image)
    /\ binary_string' = BinaryString(combined_data)
    /\ pixels' = carrier_image.pixels
    /\ pixel_index' = 0
    /\ data_index' = 0
    /\ pc' = "embedding"
    /\ UNCHANGED <<sideVars, embedInputs, prepared_file, metadata, temp_files, open_fds,
                   file_data, combined_data, capacity_info, output_image,
                   embed_result, extractVars, aloneVars>>

\* if binary_string[data_index] == '1': pixel[j] | 1  else: pixel[j] & ~1
WriteBit(value, bit) == IF bit = 1 THEN OrOne(value) ELSE AndNotOne(value)

\* for j in range(3): the pixel and data_index after channels j..2 (j is 0-based)
RECURSIVE EmbedChannels(_, _, _, _)
EmbedChannels(pixel, bits, di, j) ==
    IF j >= 3 THEN [pixel |-> pixel, data_index |-> di]
    ELSE IF di < Len(bits)
         THEN EmbedChannels([pixel EXCEPT ![j + 1] = WriteBit(pixel[j + 1], bits[di + 1])],
                            bits, di + 1, j + 1)
         ELSE EmbedChannels(pixel, bits, di, j + 1)

\* one iteration of for i in range(len(pixels)), lines 93-107
EmbedPixel ==
    /\ pc = "embedding"
    /\ pixel_index < Len(pixels)
    /\ data_index < Len(binary_string)
    /\ LET r == EmbedChannels(pixels[pixel_index + 1], binary_string, data_index, 0)
       IN  /\ pixels' = [pixels EXCEPT ![pixel_index + 1] = r.pixel]
           /\ data_index' = r.data_index
    /\ pixel_index' = pixel_index + 1
    /\ UNCHANGED <<sideVars, embedInputs, pc, prepared_file, metadata, temp_files, open_fds,
                   file_data, combined_data, capacity_info, binary_string,
                   output_image, embed_result, extractVars, aloneVars>>

\* the loop ends (exhausted or break), lines 109-121
SaveImage ==
    /\ pc = "embedding"
    /\ pixel_index >= Len(pixels) \/ data_index >= Len(binary_string)
    /\ output_image' = [width |-> carrier_image.width, height |-> carrier_image.height,
                        pixels |-> pixels]
    /\ temp_files' = CleanUp(temp_files)
    /\ input_exists' = InputAfterCleanUp
    /\ embed_result' = TRUE
    /\ pc' = "embedded"
    /\ UNCHANGED <<printed_suggestions, plan_loop, embedInputs, prepared_file, metadata, open_fds, file_data,
                   combined_data, capacity_info, binary_string, pixels, pixel_index,
                   data_index, extractVars, aloneVars>>

(***************************************************************************)
(* stego_enhanced.py: extract_data                                         *)
(***************************************************************************)
\* the image with its last c rows missing
Crop(img, c) ==
    [width |-> img.width, height |-> img.height - c,
     pixels |-> SubSeq(img.pixels, 1, img.width * (img.height - c))]

\* images extract_data may be given: the output of embed_data, whole or cropped
StegoInputs(img) == {img} \cup {Crop(img, c) : c \in 1..Min(MaxCrop, img.height - 1)}

\* for pixel in pixels: for value in pixel: binary_string += str(value & 1)
LsbString(px) ==
    [k \in 1..(3 * Len(px)) |-> AndOne(px[((k - 1) \div 3) + 1][((k - 1) % 3) + 1])]

\* lines 130-139
ExtractRead ==
    /\ pc = "embedded"
    /\ tool = "enhanced"
    /\ \E img \in StegoInputs(output_image) :
          /\ stego_image' = img
          /\ ex_binary_string' = LsbString(img.pixels)
    /\ pc' = "ex_read"
    /\ UNCHANGED <<sideVars, embedInputs, embedLocals, temp_files, open_fds, output_image,
                   embed_result, ex_metadata, file_bytes, restored, aloneVars>>

\* metadata_size = int(binary_string[:32], 2)
MetadataSize(bits) == IntBase2(Slice(bits, 0, 8 * HeaderBytes))

\* metadata_end = metadata_start + (metadata_size * 8)
MetadataEnd(bits) == 8 * HeaderBytes + MetadataSize(bits) * 8

\* lines 147-156: metadata_bytes
MetadataBytes(bits) == BitsToBytes(Slice(bits, 8 * HeaderBytes, MetadataEnd(bits)))

\* as FileBytes, with file_start = metadata_start
FileBytes_FromMetadataStart(bits, m) ==
    BitsToBytes(Slice(bits, 8 * HeaderBytes, 8 * HeaderBytes + m.size * 8))

\* lines 165-175: file_bytes
FileBytes(bits, m) ==
    BitsToBytes(Slice(bits, MetadataEnd(bits), MetadataEnd(bits) + m.size * 8))

\* lines 141-163; json.loads or a metadata[...] read may raise
ExtractMetadata ==
    /\ pc = "ex_read"
    /\ LET parsed == JsonLoads(MetadataBytes(ex_binary_string))
       IN  /\ ex_metadata' = parsed.value
           /\ pc' = IF parsed.ok THEN "ex_meta" ELSE "ex_error"
    /\ UNCHANGED <<sideVars, embedInputs, embedLocals, temp_files, open_fds, output_image,
                   embed_result, stego_image, ex_binary_string, file_bytes, restored,
                   aloneVars>>

\* lines 165-183: file_bytes, written to a fresh temporary file
ExtractFile ==
    /\ pc = "ex_meta"
    /\ file_bytes' = FileBytes(ex_binary_string, ex_metadata)
    /\ temp_files' = temp_files @@ ("temp_extract" :> FileBytes(ex_binary_string, ex_metadata))
    /\ pc' = "ex_file"
    /\ UNCHANGED <<sideVars, embedInputs, embedLocals, open_fds, output_image, embed_result,
                   stego_image, ex_binary_string, ex_metadata, restored, aloneVars>>

\* lines 185-202: restore, then os.unlink(temp_path); a raising restore skips the unlink
ExtractRestore ==
    /\ pc = "ex_file"
    /\ LET r == IF ex_metadata.type = "directory"
                THEN restore_directory(temp_files["temp_extract"], ex_metadata)
                ELSE restore_file(temp_files["temp_extract"], ex_metadata)
       IN  IF r.ok
           THEN /\ restored' = IF ex_metadata.type = "directory"
                               THEN [kind |-> "dir", data |-> <<>>, tree |-> r.tree]
                               ELSE [kind |-> "file", data |-> r.data, tree |-> <<>>]
                /\ temp_files' = [p \in (DOMAIN temp_files) \ {"temp_extract"} |-> temp_files[p]]
                /\ pc' = "extracted"
           ELSE /\ pc' = "ex_error"
                /\ UNCHANGED <<restored, temp_files>>
    /\ UNCHANGED <<sideVars, embedInputs, embedLocals, open_fds, output_image, embed_result,
                   stego_image, ex_binary_string, ex_metadata, file_bytes, aloneVars>>

(***************************************************************************)
(* test_file_handler.py, Test 5: prepare_file, then restore_file on the    *)
(* prepared path                                                           *)
(***************************************************************************)
TestRestore ==
    /\ pc = "prepared"
    /\ input_file.kind = "file"
    /\ LET r == restore_file(PreparedContent, metadata)
       IN  /\ r.ok
           /\ restored' = [kind |-> "file", data |-> r.data, tree |-> <<>>]
    /\ temp_files' = CleanUp(temp_files)
    /\ pc' = "test_restored"
    /\ UNCHANGED <<sideVars, embedInputs, embedLocals, open_fds, output_image, embed_result,
                   stego_image, ex_binary_string, ex_metadata, file_bytes, aloneVars>>

(***************************************************************************)
(* image_binary_insert.py / image_binary_extract.py                        *)
(***************************************************************************)
\* size_bytes + binary_data
PlainFrame(data) == ToBytes4(Len(data)) \o data

\* len(binary_string) > max_capacity, max_capacity = width * height * 3
PlainTooSmall(bits, img) == Len(bits) > img.width * img.height * 3

\* image_binary_insert.py lines 13-33, raising ValueError
PlainReject ==
    /\ pc = "start"
    /\ tool = "plain"
    /\ PlainTooSmall(BinaryString(PlainFrame(input_file.data)), carrier_image)
    /\ file_data' = input_file.data
    /\ combined_data' = PlainFrame(input_file.data)
    /\ binary_string' = BinaryString(PlainFrame(input_file.data))
    /\ prepared_file' = "input"
    /\ embed_result' = FALSE
    /\ pc' = "rejected"
    /\ UNCHANGED <<sideVars, embedInputs, metadata, temp_files, open_fds, capacity_info, pixels,
                   pixel_index, data_index, output_image, extractVars, aloneVars>>

\* image_binary_insert.py lines 13-37; its loop and save are those of embed_data
PlainBegin ==
    /\ pc = "start"
    /\ tool = "plain"
    /\ ~PlainTooSmall(BinaryString(PlainFrame(input_file.data)), carrier_image)
    /\ file_data' = input_file.data
    /\ combined_data' = PlainFrame(input_file.data)
    /\ binary_string' = BinaryString(PlainFrame(input_file.data))
    /\ prepared_file' = "input"
    /\ pixels' = carrier_image.pixels
    /\ pixel_index' = 0
    /\ data_index' = 0
    /\ pc' = "embedding"
    /\ UNCHANGED <<sideVars, embedInputs, metadata, temp_files, open_fds, capacity_info,
                   output_image, embed_result, extractVars, aloneVars>>

\* image_binary_extract.py lines 23-38: binary_data
PlainData(bits) ==
    BitsToBytes(Slice(bits, 8 * HeaderBytes, 8 * HeaderBytes + MetadataSize(bits) * 8))

\* image_binary_extract.py lines 11-43
PlainExtract ==
    /\ pc = "embedded"
    /\ tool = "plain"
    /\ \E img \in StegoInputs(output_image) :
          /\ stego_image' = img
          /\ ex_binary_string' = LsbString(img.pixels)
          /\ file_bytes' = PlainData(LsbString(img.pixels))
          /\ restored' = [kind |-> "file", data |-> PlainData(LsbString(img.pixels)),
                          tree |-> <<>>]
    /\ pc' = "extracted"
    /\ UNCHANGED <<sideVars, embedInputs, embedLocals, temp_files, open_fds, output_image,
                   embed_result, ex_metadata, aloneVars>>

Next ==
    \/ Prepare
    \/ BuildFrame
    \/ RejectCapacity
    \/ BeginEmbedding
    \/ EmbedPixel
    \/ SaveImage
    \/ ExtractRead
    \/ ExtractMetadata
    \/ ExtractFile
    \/ ExtractRestore
    \/ TestRestore
    \/ PlainReject
    \/ PlainBegin
    \/ PlainExtract

Spec == Init /\ [][Next]_vars

(***************************************************************************)
(* calculate_required_capacity alone: successive calls, the previous       *)
(* call's input and result kept beside the current one                     *)
(***************************************************************************)
InitPlan ==
    /\ input_file = File(".txt", <<>>)
    /\ compress = FALSE
    /\ carrier_image = Image(1, 1, "mixed")
    /\ tool = "enhanced"
    /\ pc = "plan"
    /\ Idle

PlanCall ==
    /\ pc = "plan"
    /\ \E n \in 0..MaxPlanN :
          /\ plan_input' = <<n, plan_input[1]>>
          /\ plan_result' = <<calculate_required_capacity(n), plan_result[1]>>
    /\ UNCHANGED <<sideVars, embedInputs, pc, embedLocals, temp_files, open_fds, output_image,
                   embed_result, extractVars, gate_input, gate_result>>

NextPlan == PlanCall

SpecPlan == InitPlan /\ [][NextPlan]_vars

(***************************************************************************)
(* prepare_file alone, on the extension, size, compress flag and gzip      *)
(* output size of a file                                                   *)
(***************************************************************************)
GateSizes ==
    {0, 10} \cup ((CompressThreshold - GateSpan)..(CompressThreshold + GateSpan))

\* gzip output sizes: tiny, around 0.8 times the sizes near the threshold, and
\* larger than the original
GateCompressedSizes ==
    {0, CompressThreshold + GateSpan + 20}
    \cup (((4 * (CompressThreshold - GateSpan)) \div 5 - 1)
            ..((4 * (CompressThreshold + GateSpan)) \div 5 + 1))

GateInputs ==
    {<<e, s, c, z>> : e \in {".txt", ".bin", ".zip", ".gz", ".bz2", ".7z", ".rar",
                             ".jpg", ".jpeg", ".mp3", ".mp4"},
                      s \in GateSizes, c \in BOOLEAN,
                      z \in GateCompressedSizes}

InitGate ==
    /\ input_file = File(".txt", <<>>)
    /\ compress = FALSE
    /\ carrier_image = Image(1, 1, "mixed")
    /\ tool = "enhanced"
    /\ pc = "gate"
    /\ prepared_file = "none" /\ metadata = NoMetadata
    /\ temp_files = NoFiles /\ open_fds = {}
    /\ file_data = <<>> /\ combined_data = <<>> /\ capacity_info = NoPlan
    /\ binary_string = <<>> /\ pixels = <<>> /\ pixel_index = 0 /\ data_index = 0
    /\ output_image = NoImage /\ embed_result = "none"
    /\ stego_image = NoImage /\ ex_binary_string = <<>> /\ ex_metadata = NoMetadata
    /\ file_bytes = <<>> /\ restored = NoRestored
    /\ plan_input = <<-1, -1>> /\ plan_result = <<NoPlan, NoPlan>>
    /\ gate_input \in GateInputs /\ gate_result = NoGate
    /\ printed_suggestions = <<>> /\ input_exists = TRUE /\ plan_loop = NoLoop

GateCall ==
    /\ pc = "gate"
    /\ gate_result' = prepare_file(gate_input[1], gate_input[2], gate_input[3],
                                   gate_input[4])
    /\ pc' = "gate_done"
    /\ UNCHANGED <<sideVars, embedInputs, embedLocals, temp_files, open_fds, output_image,
                   embed_result, extractVars, plan_input, plan_result, gate_input>>

NextGate == GateCall

SpecGate == InitGate /\ [][NextGate]_vars

(***************************************************************************)
(* Properties                                                              *)
(***************************************************************************)
\* bit k (0-based) of a byte string, most significant bit of each byte first
FrameBit(data, k) == (data[(k \div 8) + 1] \div (2 ^ (7 - (k % 8)))) % 2

\* channel k (0-based, R,G,B within a pixel, pixels row-major) of a pixel list
Channel(px, k) == px[(k \div 3) + 1][(k % 3) + 1]

\* big-endian value of the first four bytes of a frame
HeaderValue(frame) ==
    frame[1] * 16777216 + frame[2] * 65536 + frame[3] * 256 + frame[4]

\* extract_data ran on the very image embed_data wrote
ExtractingOwnOutput ==
    /\ tool = "enhanced"
    /\ pc \in {"ex_read", "ex_meta", "ex_file", "extracted", "ex_error"}
    /\ stego_image = output_image

\* C1: round-trip identity.  For a file input, embed_data succeeds whenever the
\* carrier's capacity (width*height*3 div 8) is at least the frame length,
\* extract_data on the image it wrote does not fail and restores exactly the
\* input's bytes; prepare_file followed by restore_file also gives the input's
\* bytes.
RoundTripIdentity ==
    /\ (tool = "enhanced" /\ pc = "rejected")
          => (carrier_image.width * carrier_image.height * 3) \div 8 < Len(combined_data)
    /\ (ExtractingOwnOutput /\ input_file.kind = "file")
          => /\ pc # "ex_error"
             /\ pc = "extracted"
                   => restored = [kind |-> "file", data |-> input_file.data, tree |-> <<>>]
    /\ pc = "test_restored"
          => restored = [kind |-> "file", data |-> input_file.data, tree |-> <<>>]

RoundTripWitness ==
    /\ ExtractingOwnOutput /\ pc = "extracted"
    /\ input_file.kind = "file" /\ Len(input_file.data) > CompressThreshold
    /\ metadata.compressed
    /\ restored.data = input_file.data
    /\ carrier_image.pixels # output_image.pixels

\* C2: capacity rejection.  Whenever the frame has more bits than the carrier
\* has channels, the embedding ends rejected (result False), no pixel list was
\* loaded or modified and no output image exists; the carrier is still one of
\* the original carriers; a 1x1 carrier never gets past the capacity check.
CapacityRejection ==
    /\ (combined_data # <<>>
        /\ Len(combined_data) * 8 > carrier_image.width * carrier_image.height * 3)
          => /\ pc \in {"framed", "rejected"}
             /\ pc = "rejected" => embed_result = FALSE
             /\ pixels = <<>> /\ pixel_index = 0 /\ data_index = 0
             /\ output_image = NoImage
    /\ carrier_image \in Carriers
    /\ (carrier_image.width = 1 /\ carrier_image.height = 1)
          => /\ pc \in {"start", "prepared", "framed", "rejected", "test_restored"}
             /\ output_image = NoImage

CapacityRejectionWitness ==
    /\ pc = "rejected" /\ tool = "enhanced"
    /\ carrier_image.height > 1
    /\ Len(combined_data) = max_capacity(carrier_image) + 1
    /\ output_image = NoImage

\* C3: metadata size invariant.  In every frame embed_data builds, the 4-byte
\* header is the length of the serialized metadata, the metadata follows it,
\* and metadata['size'] is the length of the payload segment after it, which is
\* the prepared file's content.
MetadataSizeInvariant ==
    (tool = "enhanced" /\ combined_data # <<>>)
       => /\ HeaderValue(combined_data) = Len(JsonDumps(metadata))
          /\ Slice(combined_data, HeaderBytes, HeaderBytes + HeaderValue(combined_data))
                = JsonDumps(metadata)
          /\ metadata.size
                = Len(combined_data) - HeaderBytes - HeaderValue(combined_data)
          /\ Slice(combined_data, HeaderBytes + HeaderValue(combined_data),
                   Len(combined_data)) = file_data
          /\ metadata.size = Len(file_data)

MetadataSizeWitness ==
    /\ tool = "enhanced" /\ pc = "framed"
    /\ input_file.kind = "file" /\ compress
    /\ metadata.compressed
    /\ metadata.size < Len(input_file.data)
    /\ metadata.size = Len(file_data)

\* C4: embedding changes only least-significant bits.  Throughout the loop and
\* in the written image every channel stays in 0..255 and keeps the carrier's
\* upper seven bits, the image keeps the carrier's dimensions, and every
\* channel at position >= 8*len(frame) equals the carrier's.
OnlyLsbChanged(px) ==
    /\ Len(px) = Len(carrier_image.pixels)
    /\ \A k \in 0..(3 * Len(px) - 1) :
          /\ Channel(px, k) \in 0..255
          /\ Channel(px, k) \div 2 = Channel(carrier_image.pixels, k) \div 2
          /\ k >= 8 * Len(combined_data)
                => Channel(px, k) = Channel(carrier_image.pixels, k)

EmbeddingChangesOnlyLsb ==
    /\ pc = "embedding" => OnlyLsbChanged(pixels)
    /\ output_image # NoImage
          => /\ OnlyLsbChanged(output_image.pixels)
             /\ output_image.width = carrier_image.width
             /\ output_image.height = carrier_image.height

OnlyLsbWitness ==
    /\ pc = "embedded"
    /\ 3 * Len(output_image.pixels) > 8 * Len(combined_data)
    /\ \E k \in 0..(8 * Len(combined_data) - 1) :
          /\ Channel(output_image.pixels, k) = Channel(carrier_image.pixels, k) - 1
          /\ Channel(carrier_image.pixels, k) > 1
    /\ \E k \in 0..(8 * Len(combined_data) - 1) :
          Channel(output_image.pixels, k) = Channel(carrier_image.pixels, k) + 1

\* C5: bit ordering.  In the written image, bit k of the frame (bytes in
\* order, most significant bit first) is the LSB of channel k mod 3 of pixel
\* k div 3; extract_data's bit string has the same bit at position k; byte b of
\* the frame starts on an R channel exactly when b is a multiple of 3.
BitOrdering ==
    /\ output_image # NoImage
          => \A k \in 0..(8 * Len(combined_data) - 1) :
                Channel(output_image.pixels, k) % 2 = FrameBit(combined_data, k)
    /\ (pc \in {"ex_read", "ex_meta", "ex_file", "extracted", "ex_error"}
        /\ stego_image = output_image)
          => \A k \in 0..(8 * Len(combined_data) - 1) :
                ex_binary_string[k + 1] = FrameBit(combined_data, k)
    /\ output_image # NoImage
          => \A b \in 0..(Len(combined_data) - 1) :
                ((8 * b) % 3 = 0) <=> (b % 3 = 0)

BitOrderingWitness ==
    /\ pc = "ex_read" /\ stego_image = output_image
    /\ \E b \in 1..Len(combined_data) : combined_data[b] = 77
    /\ \E k \in 0..(8 * Len(combined_data) - 1) :
          ex_binary_string[k + 1] # Channel(carrier_image.pixels, k) % 2

\* C6: frame determinism.  Decoding, as extract_data does, the bit string of
\* the image embed_data wrote gives back the embedded metadata and payload,
\* whatever carrier bits follow the frame.
FrameDeterminism ==
    ExtractingOwnOutput
       => /\ pc # "ex_error"
          /\ pc \in {"ex_meta", "ex_file", "extracted"} => ex_metadata = metadata
          /\ pc \in {"ex_file", "extracted"} => file_bytes = file_data

FrameDeterminismWitness ==
    /\ ExtractingOwnOutput /\ pc = "ex_file"
    /\ ex_metadata = metadata /\ file_bytes = file_data
    /\ Len(file_data) > 0
    /\ Len(ex_binary_string) >= 8 * (Len(combined_data) + 2)
    /\ \E k \in (8 * Len(combined_data))..(Len(ex_binary_string) - 1) :
          ex_binary_string[k + 1] = 1

\* C7: truncated frames are rejected.  extract_data never gets past decoding
\* with a payload shorter than metadata['size'].
TruncatedFrameRejected ==
    (tool = "enhanced" /\ pc \in {"ex_file", "extracted"})
       => Len(file_bytes) >= ex_metadata.size

\* C8: compression gate.  With compression requested, prepare_file reports
\* compressed = true exactly when the file is larger than 1024 bytes, its name
\* has no precompressed extension and the gzip output is smaller than 0.8
\* times the original; otherwise compressed = false, size is the original
\* size, there is no original_size / compression_ratio key and the path
\* returned is the input's.
GateAccepts(ext, size, gz) ==
    /\ size > 1024
    /\ ext \notin {".zip", ".gz", ".bz2", ".7z", ".rar", ".jpg", ".jpeg", ".mp3", ".mp4"}
    /\ 10 * gz < 8 * size

CompressionGate ==
    (gate_result # NoGate /\ gate_input[3])
       => LET ext == gate_input[1]
              size == gate_input[2]
              gz == gate_input[4]
              info == gate_result.info
          IN  /\ info.compressed <=> GateAccepts(ext, size, gz)
              /\ ~GateAccepts(ext, size, gz)
                    => /\ info.size = size
                       /\ "original_size" \notin DOMAIN info
                       /\ "compression_ratio" \notin DOMAIN info
                       /\ gate_result.path = "input"

CompressionGateWitness ==
    /\ gate_result # NoGate
    /\ gate_input[1] = ".txt" /\ gate_input[2] = 1024 /\ gate_input[3]
    /\ gate_input[4] = 0
    /\ ~gate_result.info.compressed

\* C9: capacity sufficiency.  Every suggestion of calculate_required_capacity(n)
\* has width*height >= required_pixels and capacity_bytes = width*height*3 div 8
\* >= n + 4 + 1024.
CapacitySufficiency ==
    plan_input[1] >= 0
       => \A i \in 1..Len(plan_result[1].suggestions) :
             LET sg == plan_result[1].suggestions[i]
             IN  /\ sg.width * sg.height >= plan_result[1].required_pixels
                 /\ sg.capacity_bytes = (sg.width * sg.height * 3) \div 8
                 /\ sg.capacity_bytes >= plan_input[1] + 4 + 1024
                 /\ sg.capacity_bytes >= plan_input[1]

CapacitySufficiencyWitness ==
    /\ plan_input[1] = 0
    /\ Len(plan_result[1].suggestions) = 4
    /\ plan_result[1].required_pixels = 2742
    /\ \E i \in 1..4 :
          LET sg == plan_result[1].suggestions[i]
          IN  /\ sg.aspect_ratio = <<1, 1>>
              /\ sg.width = 53 /\ sg.height = 53
              /\ sg.capacity_bytes = 1053

\* C10: capacity monotonicity.  For 0 <= n <= m the required_pixels of the two
\* plans are ordered the same way, and required_pixels = ceil((n+4+1024)*8/3).
CapacityMonotonicity ==
    /\ (plan_input[2] >= 0 /\ plan_input[2] <= plan_input[1])
          => plan_result[2].required_pixels <= plan_result[1].required_pixels
    /\ plan_input[1] >= 0
          => /\ 3 * plan_result[1].required_pixels >= (plan_input[1] + 4 + 1024) * 8
             /\ 3 * (plan_result[1].required_pixels - 1) < (plan_input[1] + 4 + 1024) * 8

CapacityMonotonicityWitness ==
    /\ plan_input[2] >= 0 /\ plan_input[2] < plan_input[1]
    /\ plan_result[2].required_pixels < plan_result[1].required_pixels

\* C11: temporary storage is released on every exit path.  When embed_data or
\* extract_data has ended (returned or raised), no temporary file created by
\* prepare_file, prepare_directory, extract_data or restore_file exists and no
\* temporary-file descriptor is open.
TemporaryStorageReleased ==
    (tool = "enhanced" /\ pc \in {"rejected", "embedded", "extracted", "ex_error"})
       => temp_files = NoFiles /\ open_fds = {}

\* C12: on a capacity rejection every dimension suggestion embed_data reported
\* has capacity (width*height*3 div 8) at least the rejected frame's length,
\* so the capacity check of the same embed passes on a carrier of that size.
RejectionSuggestionsSuffice ==
    (tool = "enhanced" /\ pc = "rejected")
       => /\ Len(printed_suggestions) > 0
          /\ \A i \in 1..Len(printed_suggestions) :
                LET sg == printed_suggestions[i]
                IN  /\ (sg.width * sg.height * 3) \div 8 >= Len(combined_data)
                    /\ ~TooSmall(Len(combined_data),
                                 [width |-> sg.width, height |-> sg.height])

RejectionSuggestionsWitness ==
    /\ tool = "enhanced" /\ pc = "rejected"
    /\ Len(printed_suggestions) = 3
    /\ Len(combined_data) > CompressThreshold
    /\ carrier_image.height > 1
    /\ TooSmall(Len(combined_data), carrier_image)

\* C17: embed_data never deletes the user's input.  The input path exists in
\* every state; prepare_file returns the input path itself whenever it does
\* not accept compression; a directory is archived to a separate temporary
\* file; the prepared file is unlinked only when it is not the input.
InputNeverDeleted ==
    tool = "enhanced"
       => /\ input_exists
          /\ (pc # "start" /\ input_file.kind = "file" /\ ~metadata.compressed)
                => prepared_file = "input"
          /\ (pc # "start" /\ input_file.kind = "dir")
                => prepared_file = "temp_tar"
          /\ (pc \in {"prepared", "framed", "embedding"} /\ prepared_file # "input")
                => prepared_file \in DOMAIN temp_files
          /\ (pc \in {"rejected", "embedded"} /\ prepared_file # "input")
                => prepared_file \notin DOMAIN temp_files

InputNeverDeletedWitness ==
    /\ tool = "enhanced" /\ pc = "embedded"
    /\ input_file.kind = "file" /\ compress
    /\ prepared_file = "input"
    /\ input_exists

(***************************************************************************)
(* calculate_required_capacity, statement by statement                     *)
(***************************************************************************)
\* negative byte counts: just below zero, the one that makes total_bytes 0,
\* and the first that makes required_pixels negative
NegativeInputs ==
    {-1, -(HeaderBytes + MetadataOverhead), -(HeaderBytes + MetadataOverhead) - 1}

\* the 1 MiB payload of the planner's own demonstration (file_handler.py line 238)
OneMiB == 1024 * 1024

PlanLoopInputs == (0..MaxPlanN) \cup {OneMiB} \cup NegativeInputs

InitPlanLoop ==
    /\ input_file = File(".txt", <<>>)
    /\ compress = FALSE
    /\ carrier_image = Image(1, 1, "mixed")
    /\ tool = "enhanced"
    /\ pc = "plan_call"
    /\ prepared_file = "none" /\ metadata = NoMetadata
    /\ temp_files = NoFiles /\ open_fds = {}
    /\ file_data = <<>> /\ combined_data = <<>> /\ capacity_info = NoPlan
    /\ binary_string = <<>> /\ pixels = <<>> /\ pixel_index = 0 /\ data_index = 0
    /\ output_image = NoImage /\ embed_result = "none"
    /\ stego_image = NoImage /\ ex_binary_string = <<>> /\ ex_metadata = NoMetadata
    /\ file_bytes = <<>> /\ restored = NoRestored
    /\ \E n \in PlanLoopInputs : plan_input = <<n, -1>>
    /\ plan_result = <<NoPlan, NoPlan>>
    /\ gate_input = <<"", 0, FALSE, 0>> /\ gate_result = NoGate
    /\ printed_suggestions = <<>> /\ input_exists = TRUE /\ plan_loop = NoLoop

planLoopFrame == <<embedInputs, embedLocals, temp_files, open_fds, output_image,
                   embed_result, extractVars, gate_input, gate_result,
                   printed_suggestions, input_exists, plan_input>>

\* lines 183-199: the first statement of the function is the size arithmetic
PlanBegin ==
    /\ pc = "plan_call"
    /\ plan_loop' = [required_pixels |-> required_pixels(plan_input[1]), ratio |-> 1,
                     width |-> 0, height |-> 0, suggestions |-> <<>>]
    /\ pc' = "plan_for"
    /\ UNCHANGED <<planLoopFrame, plan_result>>

\* (required_pixels * ratio_w / ratio_h) ** 0.5 of a negative float is a
\* complex number, on which int() raises TypeError
SqrtRaises(rp, ratio) == rp * ratio[1] < 0

\* int((required_pixels * ratio_w / ratio_h) ** 0.5)
InitialWidth(rp, ratio) ==
    FloorSqrt(rp * ratio[1], ratio[2], 0, Min(rp * ratio[1], 4096))

\* lines 201-204: the next aspect ratio, its first width and height
PlanRatio ==
    /\ pc = "plan_for"
    /\ plan_loop.ratio <= Len(aspect_ratios)
    /\ LET ratio == aspect_ratios[plan_loop.ratio]
           rp == plan_loop.required_pixels
       IN  IF SqrtRaises(rp, ratio)
           THEN /\ pc' = "plan_error"
                /\ UNCHANGED plan_loop
           ELSE /\ pc' = "plan_while"
                /\ plan_loop' =
                      [plan_loop EXCEPT
                         !.width = InitialWidth(rp, ratio),
                         !.height = HeightFor(InitialWidth(rp, ratio), ratio[1], ratio[2])]
    /\ UNCHANGED <<planLoopFrame, plan_result>>

\* as NeedsMorePixels, with the comparison turned round
NeedsMorePixels_Inverted(width, height, rp) == width * height > rp

\* while width * height < required_pixels
NeedsMorePixels(width, height, rp) == width * height < rp

\* as NextWidth, without the increment
NextWidth_Stuck(width) == width

\* width += 1
NextWidth(width) == width + 1

\* lines 207-209: one iteration of the while loop
PlanWiden ==
    /\ pc = "plan_while"
    /\ NeedsMorePixels(plan_loop.width, plan_loop.height, plan_loop.required_pixels)
    /\ LET ratio == aspect_ratios[plan_loop.ratio]
       IN  plan_loop' =
              [plan_loop EXCEPT
                 !.width = NextWidth(plan_loop.width),
                 !.height = HeightFor(NextWidth(plan_loop.width), ratio[1], ratio[2])]
    /\ UNCHANGED <<planLoopFrame, plan_result, pc>>

\* lines 211-217: the loop has ended, suggestions.append(...)
PlanAppend ==
    /\ pc = "plan_while"
    /\ ~NeedsMorePixels(plan_loop.width, plan_loop.height, plan_loop.required_pixels)
    /\ plan_loop' =
          [plan_loop EXCEPT
             !.suggestions =
                 Append(@, [width |-> plan_loop.width, height |-> plan_loop.height,
                            pixels |-> plan_loop.width * plan_loop.height,
                            aspect_ratio |-> aspect_ratios[plan_loop.ratio],
                            capacity_bytes |->
                                (plan_loop.width * plan_loop.height * 3) \div 8]),
             !.ratio = @ + 1]
    /\ pc' = "plan_for"
    /\ UNCHANGED <<planLoopFrame, plan_result>>

\* lines 219-223: every ratio is done, return the plan
PlanReturn ==
    /\ pc = "plan_for"
    /\ plan_loop.ratio > Len(aspect_ratios)
    /\ plan_result' = <<[file_size |-> plan_input[1],
                         required_pixels |-> plan_loop.required_pixels,
                         suggestions |-> SortedByPixels(plan_loop.suggestions)],
                        plan_result[1]>>
    /\ pc' = "plan_done"
    /\ UNCHANGED <<planLoopFrame, plan_loop>>

NextPlanLoop ==
    \/ PlanBegin
    \/ PlanRatio
    \/ PlanWiden
    \/ PlanAppend
    \/ PlanReturn

\* the function runs to its return or to the exception: no statement waits
SpecPlanLoop == InitPlanLoop /\ [][NextPlanLoop]_vars /\ WF_vars(NextPlanLoop)

\* C13: for every non-negative payload size calculate_required_capacity ends
\* without error and returns a non-empty list with exactly one suggestion per
\* aspect ratio 1:1, 4:3, 16:9, 3:2.
PlannerTerminates ==
    plan_input[1] >= 0
       => <>(/\ pc = "plan_done"
             /\ Len(plan_result[1].suggestions) = Len(aspect_ratios)
             /\ Len(plan_result[1].suggestions) > 0
             /\ \A r \in 1..Len(aspect_ratios) :
                   Cardinality({i \in 1..Len(plan_result[1].suggestions) :
                                  plan_result[1].suggestions[i].aspect_ratio
                                      = aspect_ratios[r]}) = 1)

PlannerTerminatesWitness ==
    /\ pc = "plan_done" /\ plan_input[1] = 0
    /\ Len(plan_result[1].suggestions) = 4
    /\ \E i \in 1..4 : /\ plan_result[1].suggestions[i].aspect_ratio = <<1, 1>>
                       /\ plan_result[1].suggestions[i].width = 53

\* C14: negative input is rejected immediately.  For a negative byte count the
\* planner raises before it computes anything and never returns a plan.
NegativeInputRejected ==
    plan_input[1] < 0
       => /\ pc \in {"plan_call", "plan_error"}
          /\ plan_loop = NoLoop
          /\ plan_result[1] = NoPlan

\* C15: the suggestions calculate_required_capacity returns are sorted
\* ascending by pixel count: for every non-negative size each suggestion's
\* width*height is at most that of the one after it.
SuggestionsSortedByPixels ==
    (plan_input[1] >= 0 /\ plan_result[1] # NoPlan)
       => LET s == plan_result[1].suggestions
          IN  \A i \in 1..(Len(s) - 1) :
                 /\ s[i].width * s[i].height <= s[i + 1].width * s[i + 1].height
                 /\ s[i].pixels <= s[i + 1].pixels

SuggestionsSortedWitness ==
    /\ pc = "plan" /\ plan_input[1] = 0
    /\ Len(plan_result[1].suggestions) = 4
    /\ plan_result[1].suggestions[1].aspect_ratio = <<4, 3>>
    /\ plan_result[1].suggestions[4].aspect_ratio = <<1, 1>>
    /\ plan_result[1].suggestions[1].pixels < plan_result[1].suggestions[4].pixels

\* C16: for a payload of 1,048,576 bytes the plan holds a 1:1 suggestion whose
\* width equals its height, whose pixel count is at least
\* ceil(((1048576+4+1024)*8)/3), and whose sides are at least 1673.
OneMiBSquareSuggestion ==
    (pc = "plan_done" /\ plan_input[1] = OneMiB)
       => \E i \in 1..Len(plan_result[1].suggestions) :
             LET sg == plan_result[1].suggestions[i]
             IN  /\ sg.aspect_ratio = <<1, 1>>
                 /\ sg.width = sg.height
                 /\ sg.pixels = sg.width * sg.height
                 /\ sg.pixels >= ((1048576 + 4 + 1024) * 8 + 2) \div 3
                 /\ sg.width >= 1673 /\ sg.height >= 1673

OneMiBSquareWitness ==
    /\ pc = "plan_done" /\ plan_input[1] = OneMiB
    /\ plan_result[1].required_pixels = 2798944
    /\ \E i \in 1..Len(plan_result[1].suggestions) :
          /\ plan_result[1].suggestions[i].aspect_ratio = <<1, 1>>
          /\ plan_result[1].suggestions[i].width = 1674
          /\ plan_result[1].suggestions[i].pixels = 2802276

====
